---- MODULE Spec2Model ----
(***************************************************************************)
(* Zheus: a scaffolding service for .NET Clean Architecture projects.      *)
(*                                                                         *)
(* The module models                                                       *)
(*   - the text patching of the two shared generated files                 *)
(*     (IoC/NativeInjectorBootStrapper.cs, Infrastructure/Data/            *)
(*     ApplicationDbContext.cs),                                           *)
(*   - the scaffold request handlers of ProjectController,                 *)
(*   - ProjectService.createProject and the per-layer generators.          *)
(*                                                                         *)
(* File content.  A JavaScript string s and the array s.split('\n') are in *)
(* one-to-one correspondence (join('\n') is the inverse), so a file is     *)
(* modelled as the non-empty sequence of its lines; a trailing newline is  *)
(* an empty last line.  A line is a sequence of tokens; a token is a pair  *)
(* <<text, n>> standing for a piece of text that the code searches for or  *)
(* inserts as a unit.  n is the entity a registration is for, the number   *)
(* of blanks of an indentation, and 0 otherwise.                           *)
(***************************************************************************)
EXTENDS Integers, Sequences, FiniteSets, TLC

\* ------------------------------------------------------------------ bounds
MaxNames == 2       \* entity names are E1 .. E<MaxNames>
MaxBatch == 2       \* longest entityNames array of a batch call
MaxFileLines == 3   \* longest initial file, in lines

EntityNames == 1..MaxNames

\* All arrays of entity names of length 0..MaxBatch (repetitions allowed).
NameLists == UNION {[1..n -> EntityNames] : n \in 0..MaxBatch}

\* ------------------------------------------------------------------ tokens
Spaces(n) == <<" ", n>>
RegionRepositories == <<"#region Repositories", 0>>
RegionHandlers == <<"#region Handlers", 0>>
RegionDbSet == <<"#region DbSet", 0>>
EndRegion == <<"#endregion", 0>>
BaseOptions == <<": base(options)", 0>>
CloseBrace == <<"}", 0>>

\* `services.AddScoped<I${entityName}Repository, ${entityName}Repository>();`
RepositoryRegistration(entityName) ==
  <<"services.AddScoped<I{E}Repository, {E}Repository>();", entityName>>

\* `services.AddTransient<${entityName}Handler>();`
HandlerRegistration(entityName) ==
  <<"services.AddTransient<{E}Handler>();", entityName>>

\* `public DbSet<${entityName}Entity> ${entityName} { get; set; }`,
\* which is dbSetLine.trim()
DbSetDeclaration(entityName) ==
  <<"public DbSet<{E}Entity> {E} { get; set; }", entityName>>

\* dbSetLine: eight blanks and the declaration
DbSetLine(entityName) == <<Spaces(8), DbSetDeclaration(entityName)>>

\* The file does not exist.
NoFile == <<>>

\* ----------------------------------------------------- String.prototype.*
\* tok contains pat as a substring.  The only searched text that is a proper
\* substring of another token is '}', which ends a DbSet declaration.
TokenIncludes(tok, pat) ==
  \/ tok = pat
  \/ pat = CloseBrace /\ tok[1] = DbSetDeclaration(0)[1]

\* line.includes(pat)
LineIncludes(line, pat) == \E i \in DOMAIN line : TokenIncludes(line[i], pat)

\* content.includes(pat), pat without a newline
Includes(content, pat) == \E k \in DOMAIN content : LineIncludes(content[k], pat)

\* content.indexOf(pat) as the number of the line holding the first
\* occurrence, searched from line k on; 0 stands for -1.
RECURSIVE IndexOfLineFrom(_, _, _)
IndexOfLineFrom(content, pat, k) ==
  IF k > Len(content) THEN 0
  ELSE IF LineIncludes(content[k], pat) THEN k
  ELSE IndexOfLineFrom(content, pat, k + 1)

IndexOfLine(content, pat) == IndexOfLineFrom(content, pat, 1)

\* line.match(/^\s*/)?.[0] || '            '
Indentation(line) ==
  IF Len(line) > 0 /\ line[1][1] = " " /\ line[1][2] > 0
  THEN line[1]
  ELSE Spaces(12)

\* The number of lines of content that contain pat.
RECURSIVE CountLines(_, _)
CountLines(content, pat) ==
  IF content = <<>> THEN 0
  ELSE (IF LineIncludes(Head(content), pat) THEN 1 ELSE 0)
       + CountLines(Tail(content), pat)

\* ===================================================== IoCService (patching)

\* iocService.ts:78-104, the loop of addEntityRegistrations over the lines
\* from line i on.  `lines.toString().includes(registration)` looks the
\* registration up in the content as it was read.
RECURSIVE AddEntityRegistrationsLoop(_, _, _)
AddEntityRegistrationsLoop(lines, i, entityName) ==
  IF i > Len(lines) THEN <<>>
  ELSE
    LET line == lines[i]
        indentation == Indentation(line)
        repositories ==
          IF /\ LineIncludes(line, RegionRepositories)
             /\ ~Includes(lines, RepositoryRegistration(entityName))
          THEN << <<indentation, RepositoryRegistration(entityName)>> >>
          ELSE <<>>
        handlers ==
          IF /\ LineIncludes(line, RegionHandlers)
             /\ ~Includes(lines, HandlerRegistration(entityName))
          THEN << <<indentation, HandlerRegistration(entityName)>> >>
          ELSE <<>>
    IN <<line>> \o repositories \o handlers
         \o AddEntityRegistrationsLoop(lines, i + 1, entityName)

\* addEntityRegistrations: the result and the file content afterwards.
AddEntityRegistrations(file, entityName) ==
  IF file = NoFile
  THEN [success |-> FALSE, content |-> file]
  ELSE IF ~(Includes(file, RegionRepositories) \/ Includes(file, RegionHandlers))
  THEN [success |-> FALSE, content |-> file]
  ELSE [success |-> TRUE,
        content |-> AddEntityRegistrationsLoop(file, 1, entityName)]

\* content.slice(0, nextLine) + line + '\n' + content.slice(nextLine) with
\* nextLine = content.indexOf('\n', <position in line k>) + 1.  When line k
\* is the last line there is no newline after it, indexOf gives -1 and
\* nextLine is 0: the line goes to the top of the file.
InsertAtNextLine(content, k, line) ==
  IF k < Len(content)
  THEN SubSeq(content, 1, k) \o <<line>> \o SubSeq(content, k + 1, Len(content))
  ELSE <<line>> \o content

\* iocService.ts:160-170 without the test of line 160
AddRepositoryAlways(content, entityName) ==
  LET repositoriesRegion == IndexOfLine(content, RegionRepositories)
  IN IF repositoriesRegion # 0
     THEN InsertAtNextLine(content, repositoriesRegion,
                           <<Spaces(12), RepositoryRegistration(entityName)>>)
     ELSE content

\* iocService.ts:160-170
AddRepositoryIfMissing(content, entityName) ==
  IF Includes(content, RepositoryRegistration(entityName))
  THEN content
  ELSE LET repositoriesRegion == IndexOfLine(content, RegionRepositories)
       IN IF repositoriesRegion # 0
          THEN InsertAtNextLine(content, repositoriesRegion,
                                <<Spaces(12), RepositoryRegistration(entityName)>>)
          ELSE content

\* iocService.ts:173-183
AddHandlerIfMissing(content, entityName) ==
  IF Includes(content, HandlerRegistration(entityName))
  THEN content
  ELSE LET handlersRegion == IndexOfLine(content, RegionHandlers)
       IN IF handlersRegion # 0
          THEN InsertAtNextLine(content, handlersRegion,
                                <<Spaces(12), HandlerRegistration(entityName)>>)
          ELSE content

\* iocService.ts:155-184, the loop over entityNames from index i on.
RECURSIVE AddMultipleEntityRegistrationsLoop(_, _, _)
AddMultipleEntityRegistrationsLoop(content, entityNames, i) ==
  IF i > Len(entityNames) THEN content
  ELSE AddMultipleEntityRegistrationsLoop(
         AddHandlerIfMissing(AddRepositoryIfMissing(content, entityNames[i]),
                             entityNames[i]),
         entityNames, i + 1)

\* addMultipleEntityRegistrations: the result and the file content afterwards.
AddMultipleEntityRegistrations(file, entityNames) ==
  IF file = NoFile
  THEN [success |-> FALSE, content |-> file]
  ELSE [success |-> TRUE,
        content |-> AddMultipleEntityRegistrationsLoop(file, entityNames, 1)]

\* iocService.ts:208-226: the tokens that contain `I${entityName}Repository`
\* and `${entityName}Handler` are the registrations of the entity.
IsEntityRegistered(file, entityName) ==
  /\ file # NoFile
  /\ Includes(file, RepositoryRegistration(entityName))
  /\ Includes(file, HandlerRegistration(entityName))

\* ============================================ InfrastructureService (patching)

\* infrastructureService.ts:331-343: every line, and the DbSet line after
\* each line that contains '#region DbSet'.
RECURSIVE AddAfterEveryRegion(_, _)
AddAfterEveryRegion(lines, entityName) ==
  IF lines = <<>> THEN <<>>
  ELSE <<Head(lines)>>
       \o (IF LineIncludes(Head(lines), RegionDbSet)
           THEN <<DbSetLine(entityName)>> ELSE <<>>)
       \o AddAfterEveryRegion(Tail(lines), entityName)

\* infrastructureService.ts:351-372: the region is created after the line
\* that closes the constructor.  i is the loop index, found is
\* constructorFound.
RECURSIVE CreateRegionLoop(_, _, _, _)
CreateRegionLoop(newContent, i, found, entityName) ==
  IF i > Len(newContent) THEN <<>>
  ELSE
    LET line == newContent[i]
        hasNext == i + 1 <= Len(newContent) /\ newContent[i + 1] # <<>>
        closes == /\ LineIncludes(line, BaseOptions)
                  /\ ~found
                  /\ hasNext
                  /\ LineIncludes(newContent[i + 1], CloseBrace)
    IN IF closes
       THEN <<line, newContent[i + 1], <<>>,
              <<Spaces(8), RegionDbSet>>,
              DbSetLine(entityName),
              <<Spaces(8), EndRegion>> >>
            \o CreateRegionLoop(newContent, i + 2, TRUE, entityName)
       ELSE <<line>> \o CreateRegionLoop(newContent, i + 1, found, entityName)

\* constructorFound after the loop of infrastructureService.ts:351-372
ConstructorFound(newContent) ==
  \E i \in 1..(Len(newContent) - 1) :
    /\ LineIncludes(newContent[i], BaseOptions)
    /\ newContent[i + 1] # <<>>
    /\ LineIncludes(newContent[i + 1], CloseBrace)

\* addEntityToDbContext: the result and the file content afterwards.
AddEntityToDbContext(file, entityName) ==
  IF file = NoFile
  THEN [success |-> FALSE, content |-> file]
  ELSE IF Includes(file, DbSetDeclaration(entityName))
  THEN [success |-> TRUE, content |-> file]
  ELSE IF Includes(file, RegionDbSet)
  THEN [success |-> TRUE, content |-> AddAfterEveryRegion(file, entityName)]
  ELSE IF ConstructorFound(file)
  THEN [success |-> TRUE, content |-> CreateRegionLoop(file, 1, FALSE, entityName)]
  ELSE [success |-> FALSE, content |-> file]

\* infrastructureService.ts:440-450: the DbSet line after the first line
\* that contains '#region DbSet' (entityAdded guards the others).
AddAfterFirstRegionAlways(content, entityName) ==
  LET k == IndexOfLine(content, RegionDbSet)
  IN IF k = 0 THEN content
     ELSE SubSeq(content, 1, k) \o <<DbSetLine(entityName)>>
          \o SubSeq(content, k + 1, Len(content))

AddAfterFirstRegion(content, entityName) ==
  IF Includes(content, DbSetDeclaration(entityName))
  THEN content
  ELSE LET k == IndexOfLine(content, RegionDbSet)
       IN IF k = 0 THEN content
          ELSE SubSeq(content, 1, k) \o <<DbSetLine(entityName)>>
               \o SubSeq(content, k + 1, Len(content))

\* infrastructureService.ts:427-454, the loop over entityNames from i on.
RECURSIVE AddMultipleEntitiesToDbContextLoop(_, _, _)
AddMultipleEntitiesToDbContextLoop(content, entityNames, i) ==
  IF i > Len(entityNames) THEN content
  ELSE AddMultipleEntitiesToDbContextLoop(
         AddAfterFirstRegion(content, entityNames[i]), entityNames, i + 1)

\* addMultipleEntitiesToDbContext: the result and the file content afterwards.
AddMultipleEntitiesToDbContext(file, entityNames) ==
  IF file = NoFile
  THEN [success |-> FALSE, content |-> file]
  ELSE [success |-> TRUE,
        content |-> AddMultipleEntitiesToDbContextLoop(file, entityNames, 1)]

\* ================================================================== state
VARIABLES
  iocFile,    \* content of IoC/NativeInjectorBootStrapper.cs
  dbFile,     \* content of Infrastructure/Data/ApplicationDbContext.cs
  lastCall,   \* the last patch call made and its result
  reqs,       \* the scaffold requests in flight that share one project path
  payload,    \* req.body and the route of the request being handled
  env,        \* the host: is dotnet installed, directories before the request
  pc,         \* where the handler of the request is
  dirs,       \* the directories that exist
  cli,        \* the external commands run for the request
  attempted,  \* the generation steps attempted for the request
  firstFailure, \* the first generation step that failed, if any
  results,    \* the ScaffoldResult the handler builds
  res,        \* the response
  timer,      \* the cleanup timer of scaffoldProjectDownload
  closedAt,   \* the stage of the handler at which the client disconnected
  files,      \* the generated files of one entity, by path
  lastGen,    \* the last generator call and what it met and did
  templates,  \* TemplateManager.templates: the compiled template of a path
  loads,      \* how often a template path was read from disk and compiled
  lastGet     \* the last getTemplate call and how it was served

patchVars == <<iocFile, dbFile, lastCall, reqs>>
scaffoldVars ==
  <<payload, env, pc, dirs, cli, attempted, firstFailure, results, res, timer,
    closedAt>>
generatorVars == <<files, lastGen, templates, loads, lastGet>>
vars == <<patchVars, scaffoldVars, generatorVars>>

\* No request is in flight.
NoReqs == <<>>

\* No scaffold request is being handled.
NoScaffold ==
  /\ payload = <<>> /\ env = <<>> /\ pc = <<>> /\ dirs = {} /\ cli = {}
  /\ attempted = {} /\ firstFailure = <<>> /\ results = <<>> /\ res = <<>>
  /\ timer = "none" /\ closedAt = "none"

\* No generator has been called.
NoGen == [generator |-> "none", existed |-> FALSE, changed |-> FALSE]

\* The template paths the services pass to TemplateManager.getTemplate; the
\* first is loaded by two services (repositoryService.ts:89,
\* projectService.ts:325).
TemplatePaths ==
  {"domain/repositories/contracts/iRepositoryBase.hbs",
   "domain/repositories/entityRepository.hbs",
   "infrastructure/data/applicationDbContext.hbs",
   "ioc/nativeInjectorBootStrapper.hbs",
   "api/controller.hbs"}

\* TemplateManager.templates = new Map(): no path has a compiled template
\* (0 stands for no entry), and getTemplate has not been called.
NoTemplates ==
  /\ templates = [p \in TemplatePaths |-> 0]
  /\ loads = [p \in TemplatePaths |-> 0]
  /\ lastGet = [path |-> "", served |-> "none", template |-> 0]

NoGenerators == files = <<>> /\ lastGen = NoGen /\ NoTemplates

NoCall ==
  [op |-> "none", success |-> FALSE, changed |-> FALSE, registered |-> FALSE]

\* ---------------------------------------------- files the calls start from
\* The lines an initial bootstrapper is made of: the Repositories marker
\* without indentation, the Handlers marker indented by four blanks, an
\* empty line and a registration made earlier.
IocLines ==
  { <<RegionRepositories>>,
    <<Spaces(4), RegionHandlers>>,
    <<>>,
    <<Spaces(12), RepositoryRegistration(1)>> }

IocFiles == UNION {[1..n -> IocLines] : n \in 1..MaxFileLines}

NoDuplicateRegistration(file) ==
  \A e \in EntityNames :
    /\ CountLines(file, RepositoryRegistration(e)) <= 1
    /\ CountLines(file, HandlerRegistration(e)) <= 1

\* Bootstrapper files with exactly one line of each marker.
IocFilesWithBothRegions ==
  { f \in IocFiles :
      /\ CountLines(f, RegionRepositories) = 1
      /\ CountLines(f, RegionHandlers) = 1
      /\ NoDuplicateRegistration(f) }

\* ---------------------------------------------------------------- actions
\* A call of IoCService.addEntityRegistrations(projectPath, entityName).
CallAddEntityRegistrations ==
  \E e \in EntityNames :
    LET r == AddEntityRegistrations(iocFile, e)
    IN /\ iocFile' = r.content
       /\ lastCall' = [op |-> "addEntityRegistrations", success |-> r.success,
                       changed |-> r.content # iocFile,
                       registered |-> IsEntityRegistered(r.content, e)]
       /\ UNCHANGED <<dbFile, reqs, scaffoldVars, generatorVars>>

\* A call of IoCService.addMultipleEntityRegistrations(projectPath, entityNames).
CallAddMultipleEntityRegistrations ==
  \E ns \in NameLists :
    LET r == AddMultipleEntityRegistrations(iocFile, ns)
    IN /\ iocFile' = r.content
       /\ lastCall' = [op |-> "addMultipleEntityRegistrations",
                       success |-> r.success, changed |-> r.content # iocFile,
                       registered |-> \A i \in DOMAIN ns :
                                        IsEntityRegistered(r.content, ns[i])]
       /\ UNCHANGED <<dbFile, reqs, scaffoldVars, generatorVars>>

IocInit ==
  /\ iocFile \in IocFilesWithBothRegions
  /\ dbFile = NoFile
  /\ lastCall = NoCall
  /\ reqs = NoReqs
  /\ NoScaffold
  /\ NoGenerators

IocNext == CallAddEntityRegistrations \/ CallAddMultipleEntityRegistrations

SpecIoc == IocInit /\ [][IocNext]_vars

\* -------------------------------------------------------------------- C1
\* C1: on a bootstrapper file with exactly one '#region Repositories' line
\* and one '#region Handlers' line, after any sequence of
\* addEntityRegistrations and addMultipleEntityRegistrations calls (names
\* may repeat inside a call and across calls) the file holds each entity's
\* repository line and handler line at most once, and making a call again
\* with the same names leaves the content as the first call left it.
C1_IdempotentInsertion ==
  /\ NoDuplicateRegistration(iocFile)
  /\ \A e \in EntityNames :
       LET once == AddEntityRegistrations(iocFile, e).content
       IN AddEntityRegistrations(once, e).content = once
  /\ \A ns \in NameLists :
       LET once == AddMultipleEntityRegistrations(iocFile, ns).content
       IN AddMultipleEntityRegistrations(once, ns).content = once

\* Calls were made, the last one a batch call that found every name
\* registered, and E1 and E2 are both registered, each line once.
C1_Witness ==
  /\ lastCall.op = "addMultipleEntityRegistrations"
  /\ lastCall.success /\ ~lastCall.changed
  /\ \A e \in {1, 2} :
       /\ CountLines(iocFile, RepositoryRegistration(e)) = 1
       /\ CountLines(iocFile, HandlerRegistration(e)) = 1

\* ============================================================ SpecDb
\* The lines an initial ApplicationDbContext is made of: the DbSet marker,
\* an empty line and a DbSet line added earlier.
DbLines ==
  { <<Spaces(8), RegionDbSet>>,
    <<>>,
    DbSetLine(1) }

DbFiles == UNION {[1..n -> DbLines] : n \in 1..MaxFileLines}

NoDuplicateDbSet(file) ==
  \A e \in EntityNames : CountLines(file, DbSetDeclaration(e)) <= 1

\* Context files with exactly one '#region DbSet' line.
DbFilesWithOneRegion ==
  { f \in DbFiles : CountLines(f, RegionDbSet) = 1 /\ NoDuplicateDbSet(f) }

\* A call of InfrastructureService.addEntityToDbContext(projectPath, entityName).
CallAddEntityToDbContext ==
  \E e \in EntityNames :
    LET r == AddEntityToDbContext(dbFile, e)
    IN /\ dbFile' = r.content
       /\ lastCall' = [op |-> "addEntityToDbContext", success |-> r.success,
                       changed |-> r.content # dbFile,
                       registered |-> Includes(r.content, DbSetDeclaration(e))]
       /\ UNCHANGED <<iocFile, reqs, scaffoldVars, generatorVars>>

\* A call of InfrastructureService.addMultipleEntitiesToDbContext(projectPath,
\* entityNames).
CallAddMultipleEntitiesToDbContext ==
  \E ns \in NameLists :
    LET r == AddMultipleEntitiesToDbContext(dbFile, ns)
    IN /\ dbFile' = r.content
       /\ lastCall' = [op |-> "addMultipleEntitiesToDbContext",
                       success |-> r.success, changed |-> r.content # dbFile,
                       registered |-> \A i \in DOMAIN ns :
                                        Includes(r.content, DbSetDeclaration(ns[i]))]
       /\ UNCHANGED <<iocFile, reqs, scaffoldVars, generatorVars>>

DbInit ==
  /\ dbFile \in DbFilesWithOneRegion
  /\ iocFile = NoFile
  /\ lastCall = NoCall
  /\ reqs = NoReqs
  /\ NoScaffold
  /\ NoGenerators

DbNext == CallAddEntityToDbContext \/ CallAddMultipleEntitiesToDbContext

SpecDb == DbInit /\ [][DbNext]_vars

\* -------------------------------------------------------------------- C2
\* C2: on a context file with exactly one '#region DbSet' line, in every
\* state reachable by addEntityToDbContext and
\* addMultipleEntitiesToDbContext calls the file holds the DbSet line of
\* every entity at most once, and a call for entities whose lines are all
\* present returns success and leaves the file as it is.
C2_NoDuplicateDbSet ==
  /\ NoDuplicateDbSet(dbFile)
  /\ \A e \in EntityNames :
       Includes(dbFile, DbSetDeclaration(e))
       => /\ AddEntityToDbContext(dbFile, e) = [success |-> TRUE, content |-> dbFile]
          /\ AddMultipleEntitiesToDbContext(dbFile, <<e>>)
               = [success |-> TRUE, content |-> dbFile]
  /\ \A ns \in NameLists :
       (\A i \in DOMAIN ns : Includes(dbFile, DbSetDeclaration(ns[i])))
       => AddMultipleEntitiesToDbContext(dbFile, ns)
            = [success |-> TRUE, content |-> dbFile]

\* E1 and E2 have their DbSet lines and the last call, for an entity that
\* was present, succeeded and changed nothing.
C2_Witness ==
  /\ lastCall.op = "addEntityToDbContext"
  /\ lastCall.success /\ ~lastCall.changed
  /\ \A e \in {1, 2} : CountLines(dbFile, DbSetDeclaration(e)) = 1

\* ========================================================== SpecConc
\* Two scaffold requests for the same project name run their generation
\* steps on the same directory.  A request is suspended at every await of
\* scaffoldProjectDownload (projectController.ts:153-160) and the other
\* request may run there.  addMultipleEntitiesToDbContext and
\* addMultipleEntityRegistrations contain no await: the call runs from its
\* readFileSync to its writeFileSync in one turn of the event loop.
Requests == {1, 2}

\* The patched files as generated for a new project, ending with a newline.
ConcIocFiles == { f \in IocFilesWithBothRegions : Len(f) = 3 /\ f[3] = <<>> }
ConcDbFiles == { f \in DbFilesWithOneRegion : Len(f) = 2 /\ f[2] = <<>> }

\* What a patch call reads before the request was suspended the last time.
ReadBeforeAwait(r, file) == reqs[r].seen[file]

\* fs.readFileSync(filePath, 'utf-8') of a patch call of request r
\* (iocService.ts:151, infrastructureService.ts:425): the content the file
\* has in the turn in which the call writes it.
ReadFileSync(r, file) == IF file = "ioc" THEN iocFile ELSE dbFile

\* projectController.ts:156 and 690-743: generateInfrastructureLayer ends in
\* updateApplicationDbContext, which patches the context file with the
\* names of the entities created, unless there is none.
ConcInfrastructure(r) ==
  /\ reqs[r].pc = "infrastructure"
  /\ LET successfulEntities == reqs[r].names
         content == IF successfulEntities = <<>> THEN dbFile
                    ELSE AddMultipleEntitiesToDbContext(
                           ReadFileSync(r, "db"), successfulEntities).content
     IN /\ dbFile' = content
        /\ reqs' = [reqs EXCEPT ![r].pc = "ioc",
                                ![r].seen = [ioc |-> iocFile, db |-> content]]
  /\ UNCHANGED <<iocFile, lastCall, scaffoldVars, generatorVars>>

\* projectController.ts:158 and 416-461: updateIoCRegistrations.
ConcUpdateIoCRegistrations(r) ==
  /\ reqs[r].pc = "ioc"
  /\ LET successfulEntities == reqs[r].names
         content == IF successfulEntities = <<>> THEN iocFile
                    ELSE AddMultipleEntityRegistrations(
                           ReadFileSync(r, "ioc"), successfulEntities).content
     IN /\ iocFile' = content
        /\ reqs' = [reqs EXCEPT ![r].pc = "done",
                                ![r].seen = [ioc |-> content, db |-> dbFile]]
  /\ UNCHANGED <<dbFile, lastCall, scaffoldVars, generatorVars>>

ConcInit ==
  /\ iocFile \in ConcIocFiles
  /\ dbFile \in ConcDbFiles
  /\ lastCall = NoCall
  /\ reqs \in { [r \in Requests |->
                  [pc |-> "infrastructure", names |-> ns[r],
                   seen |-> [ioc |-> iocFile, db |-> dbFile]]] :
                ns \in [Requests -> NameLists] }
  /\ NoScaffold
  /\ NoGenerators

ConcNext ==
  \E r \in Requests : ConcInfrastructure(r) \/ ConcUpdateIoCRegistrations(r)

SpecConc == ConcInit /\ [][ConcNext]_vars

\* -------------------------------------------------------------------- C3
\* C3 as claimed: two concurrent requests that patch the same files
\* interleave the read and the write of their patch calls, so that once
\* both have patched, a line inserted by one of them is lost or a marker
\* region is corrupted.
C3_LinesOf(r) ==
  \A i \in DOMAIN reqs[r].names :
    /\ reqs[r].pc \in {"ioc", "done"}
       => CountLines(dbFile, DbSetDeclaration(reqs[r].names[i])) = 1
    /\ reqs[r].pc = "done"
       => /\ CountLines(iocFile, RepositoryRegistration(reqs[r].names[i])) = 1
          /\ CountLines(iocFile, HandlerRegistration(reqs[r].names[i])) = 1

C3_RegionsIntact ==
  /\ CountLines(iocFile, RegionRepositories) = 1
  /\ CountLines(iocFile, RegionHandlers) = 1
  /\ CountLines(dbFile, RegionDbSet) = 1

MaxEntities == 2    \* longest entities array of a request

Routes == {"scaffold-download", "scaffold", "validate-scaffold"}

\* Project names as strings of characters: "", "S", "1", "S " and a name
\* of 51 letters.
ProjectNames ==
  {<<>>, <<"S">>, <<"1">>, <<"S", " ">>, [k \in 1..51 |-> "S"]}

\* req.body.projectOptions; hasName is false when projectOptions or its
\* name is missing.
ProjectOptionsValues ==
  {[hasName |-> FALSE, name |-> <<>>, force |-> FALSE]}
    \cup [hasName : {TRUE}, name : ProjectNames, force : BOOLEAN]

\* An element of req.body.entities: null, or an object with or without
\* generateCommands: false.
EntityDefs ==
  {[isObject |-> FALSE, generateCommands |-> TRUE]}
    \cup [isObject : {TRUE}, generateCommands : BOOLEAN]

\* req.body.entities: missing, a string, or an array.
EntitiesValues ==
  {[kind |-> "undefined", items |-> <<>>], [kind |-> "string", items |-> <<>>]}
    \cup {[kind |-> "array", items |-> es] :
            es \in UNION {[1..n -> EntityDefs] : n \in 0..MaxEntities}}

NoError == "null"

\* projectController.ts:283-293
ValidateScaffoldRequestNoLength(projectOptions, entities) ==
  IF ~projectOptions.hasName \/ projectOptions.name = <<>>
  THEN "Nome do projeto e obrigatorio"
  ELSE IF entities.kind # "array"
  THEN "Lista de entidades e obrigatoria"
  ELSE NoError

ValidateScaffoldRequest(projectOptions, entities) ==
  IF ~projectOptions.hasName \/ projectOptions.name = <<>>
  THEN "Nome do projeto e obrigatorio"
  ELSE IF entities.kind # "array" \/ Len(entities.items) = 0
  THEN "Lista de entidades e obrigatoria"
  ELSE NoError

\* projectService.ts:188-191 without the test of the length
IsValidProjectNameAnyLength(name) ==
  /\ Len(name) > 0
  /\ name[1] \in {"S"}
  /\ \A k \in DOMAIN name : name[k] \in {"S", "1", "_"}

\* projectService.ts:188-191: /^[a-zA-Z][a-zA-Z0-9_]*$/ and at most 50 long
IsValidProjectName(name) ==
  /\ Len(name) > 0
  /\ name[1] \in {"S"}
  /\ \A k \in DOMAIN name : name[k] \in {"S", "1", "_"}
  /\ Len(name) <= 50

\* unnamed/part_001:22-46: isInstalled is whether `dotnet --version` ran.
CheckDotNetInstallationAssumed(host) == [isInstalled |-> TRUE]

CheckDotNetInstallation(host) == [isInstalled |-> host.dotnetInstalled]

\* The commands createProject runs to create the project.
ProjectCreationCommands == {"dotnet new", "rm -rf", "dotnet new sln"}

\* ----------------------------------------------------- handler positions
Pc(step) == [at |-> step, i |-> 0, sub |-> "-"]
EntityPc(i, sub) == [at |-> "entities", i |-> i, sub |-> sub]
Done == Pc("done")

\* The eight generation steps of projectController.ts:153-160, in order.
Steps ==
  <<"baseRepositories", "domainHelpers", "entities", "infrastructure",
    "application", "ioc", "api", "nuget">>

Step(name) == <<name, 0>>
NoStep == <<"none", 0>>

\* The first failure is kept; ok is the outcome of the step.
Fail(step, ok) == IF ok \/ firstFailure # NoStep THEN firstFailure ELSE step

\* ------------------------------------------------------------- responses
NoResponse ==
  [status |-> 0, contentType |-> "none", disposition |-> <<>>, body |-> "none"]

\* responseUtils.ts:20-34
ErrorResponse(statusCode) ==
  [status |-> statusCode, contentType |-> "application/json",
   disposition |-> <<>>, body |-> "error"]

\* responseUtils.ts:5-18
SuccessResponse(statusCode) ==
  [status |-> statusCode, contentType |-> "application/json",
   disposition |-> <<>>, body |-> "success"]

\* projectController.ts:165-177: the headers of the zip, and the archive
\* piped into the response.
ZipResponse(name) ==
  [status |-> 200, contentType |-> "application/zip",
   disposition |-> name \o <<".zip">>, body |-> "zip"]

\* projectController.ts:298-314
InitialScaffoldResults ==
  [projectCreated |-> FALSE, entities |-> <<>>,
   infrastructure |-> "unset", api |-> "unset",
   ioc |-> [state |-> "unset", entities |-> <<>>]]

\* projectController.ts:194-205 and 273-277: the directories the catch
\* block of the handler can leave; rmSync removes the project directory or
\* throws, which is only logged.  The scaffold route does not clean up.
CatchCleanup(d) ==
  IF payload.route = "scaffold-download" /\ "project" \in d
  THEN {d \ {"project"}, d}
  ELSE {d}

\* ------------------------------------------------------ project creation
\* projectController.ts:139-150 (and 230-240): what the handler does with
\* the result of createProject, d being the directories createProject
\* left.  A failure is answered with 400 and the handler returns: nothing
\* is removed and no timer is set.
HandleProjectResultCleaning(success, d) ==
  IF success
  THEN [pc |-> Pc("baseRepositories"), res |-> res, dirs |-> d]
  ELSE [pc |-> Done, res |-> ErrorResponse(400), dirs |-> d \ {"project"}]

HandleProjectResultContinuing(success, d) ==
  [pc |-> Pc("baseRepositories"), res |-> res, dirs |-> d]

HandleProjectResult(success, d) ==
  IF success
  THEN [pc |-> Pc("baseRepositories"), res |-> res, dirs |-> d]
  ELSE [pc |-> Done, res |-> ErrorResponse(400), dirs |-> d]

\* createProject has returned to the handler.
ProjectResult(success, d) ==
  LET h == HandleProjectResult(success, d)
  IN /\ pc' = h.pc
     /\ res' = h.res
     /\ dirs' = h.dirs
     /\ results' = [results EXCEPT !.projectCreated = success]

\* projectController.ts:112-137, 217-229 and 86-95: the handler up to its
\* first await.  An invalid body is answered with 400.  The download
\* creates temp/ when it is missing; then createProject starts and runs
\* `dotnet --version` (projectService.ts:39, unnamed/part_001:24).
ReceiveRequest ==
  /\ pc.at = "received"
  /\ LET validationError ==
           ValidateScaffoldRequest(payload.projectOptions, payload.entities)
     IN IF validationError # NoError
        THEN /\ res' = ErrorResponse(400)
             /\ pc' = Done
             /\ UNCHANGED <<dirs, cli>>
        ELSE IF payload.route = "validate-scaffold"
        THEN /\ pc' = Pc("validation")
             /\ UNCHANGED <<dirs, cli, res>>
        ELSE \E mkdirOk \in BOOLEAN :
               IF mkdirOk \/ payload.route = "scaffold" \/ "temp" \in dirs
               THEN /\ dirs' = IF payload.route = "scaffold-download"
                               THEN dirs \cup {"temp"} ELSE dirs
                    /\ cli' = cli \cup {"dotnet --version"}
                    /\ pc' = Pc("checkDotNet")
                    /\ res' = res
               ELSE /\ dirs' \in CatchCleanup(dirs)
                    /\ res' = ErrorResponse(500)
                    /\ pc' = Done
                    /\ cli' = cli
  /\ UNCHANGED <<payload, env, attempted, firstFailure, results, timer>>
  /\ UNCHANGED <<patchVars, generatorVars, closedAt>>

\* projectService.ts:36-79: after the dotnet check, createProject refuses
\* a missing dotnet, an invalid name and an existing directory without
\* force; otherwise it runs the `dotnet new` command.
CreateProject ==
  /\ pc.at = "checkDotNet"
  /\ LET dotNetInfo == CheckDotNetInstallation(env)
         options == payload.projectOptions
     IN IF ~dotNetInfo.isInstalled
        THEN ProjectResult(FALSE, dirs) /\ cli' = cli
        ELSE IF \/ ~IsValidProjectName(options.name)
                \/ "project" \in dirs /\ ~options.force
        THEN /\ ProjectResult(FALSE, dirs)
             /\ cli' = cli \cup {"dotnet --list-sdks", "dotnet --list-runtimes"}
        ELSE /\ cli' = cli \cup {"dotnet --list-sdks", "dotnet --list-runtimes",
                                 "dotnet new"}
             /\ pc' = Pc("dotnetNew")
             /\ UNCHANGED <<dirs, res, results>>
  /\ UNCHANGED <<payload, env, attempted, firstFailure, timer>>
  /\ UNCHANGED <<patchVars, generatorVars, closedAt>>

\* projectService.ts:77-104 and 196-202: `dotnet new` ends.  It threw or
\* not, and it created the project directory or not.  With the directory
\* there, createCleanArchitectureStructure starts by running `rm -rf` on it
\* (the template defaults to webapi).
DotNetNew ==
  /\ pc.at = "dotnetNew"
  /\ \E threw \in BOOLEAN, created \in BOOLEAN :
       LET d == IF created THEN dirs \cup {"project"} ELSE dirs
       IN IF threw \/ "project" \notin d
          THEN ProjectResult(FALSE, d) /\ cli' = cli
          ELSE /\ dirs' = d
               /\ cli' = cli \cup {"rm -rf"}
               /\ pc' = Pc("cleanArchitecture")
               /\ UNCHANGED <<res, results>>
  /\ UNCHANGED <<payload, env, attempted, firstFailure, timer>>
  /\ UNCHANGED <<patchVars, generatorVars, closedAt>>

\* projectService.ts:196-233 and 105-112: `rm -rf` fails, or the directory
\* is made again and one of the dotnet commands that build the solution
\* fails, or all succeed.  A failure is caught by createProject, which
\* returns success: false and leaves the directory as it is.
CreateCleanArchitectureStructure ==
  /\ pc.at = "cleanArchitecture"
  /\ \E failure \in {"rm -rf", "dotnet new sln", "none"} :
       /\ cli' = IF failure = "rm -rf" THEN cli
                 ELSE cli \cup {"dotnet new sln"}
       /\ ProjectResult(failure = "none", dirs \cup {"project"})
  /\ UNCHANGED <<payload, env, attempted, firstFailure, timer>>
  /\ UNCHANGED <<patchVars, generatorVars, closedAt>>

\* ------------------------------------------------------ generation steps
\* A step that catches its own failure: it is attempted, succeeds or not,
\* and the handler goes on to `next` (projectController.ts:327-341).
RunStep(step, next) ==
  /\ attempted' = attempted \cup {step}
  /\ \E ok \in BOOLEAN : firstFailure' = Fail(step, ok)
  /\ pc' = next

Entities == payload.entities.items

\* projectController.ts:160-162, 266-269: after the last step.
AfterSteps ==
  IF payload.route = "scaffold-download" THEN Pc("archive") ELSE Pc("respond")

\* projectController.ts:373: the next element of the loop, or the step
\* after the loop.
NextEntity(i) ==
  IF i < Len(Entities) THEN EntityPc(i + 1, "entity") ELSE Pc("infrastructure")

\* projectController.ts:382-383
ShouldGenerateBoilerplateAlways(entityDef, entityCreatedSuccessfully) ==
  entityDef.generateCommands

ShouldGenerateBoilerplate(entityDef, entityCreatedSuccessfully) ==
  entityDef.generateCommands /\ entityCreatedSuccessfully

\* entityService.ts:52-97: what generateEntity resolves to.  It writes the
\* entity file and lists it in generatedFiles, or it writes nothing; it
\* does not reject.
GenerateEntityResults ==
  {[success |-> TRUE, generatedFiles |-> 1],
   [success |-> FALSE, generatedFiles |-> 0]}

\* projectController.ts:761-766 pushing only the entities that succeeded
PushEntityResultOnSuccess(entities, i, entityResult) ==
  IF entityResult.success
  THEN Append(entities, [entity |-> i, success |-> TRUE,
                         files |-> entityResult.generatedFiles])
  ELSE entities

\* projectController.ts:761-766: results.entities.push({className:
\* entityDef.name, success, files, message}) for element i of the request.
PushEntityResult(entities, i, entityResult) ==
  Append(entities, [entity |-> i, success |-> entityResult.success,
                    files |-> entityResult.generatedFiles])

\* projectController.ts:421-423 and 695-697: entities.filter((_, index) =>
\* results.entities[index]?.success), as the indexes that pass the filter.
SuccessfulEntities ==
  LET passes(index) == /\ index \in DOMAIN results.entities
                       /\ results.entities[index].success
      F[k \in 0..Len(Entities)] ==
        IF k = 0 THEN <<>>
        ELSE IF passes(k) THEN Append(F[k - 1], k) ELSE F[k - 1]
  IN F[Len(Entities)]

\* projectController.ts:327-341
GenerateBaseRepositories ==
  /\ pc.at = "baseRepositories"
  /\ RunStep(Step("baseRepositories"), Pc("domainHelpers"))
  /\ UNCHANGED <<payload, env, dirs, cli, results, res, timer>>
  /\ UNCHANGED <<patchVars, generatorVars, closedAt>>

\* projectController.ts:346-360
GenerateDomainHelpers ==
  /\ pc.at = "domainHelpers"
  /\ RunStep(Step("domainHelpers"), Pc("entities"))
  /\ UNCHANGED <<payload, env, dirs, cli, results, res, timer>>
  /\ UNCHANGED <<patchVars, generatorVars, closedAt>>

\* projectController.ts:370-373: the loop over the entities starts.
GenerateEntitiesAndCompleteBoilerplate ==
  /\ pc = Pc("entities")
  /\ attempted' = attempted \cup {Step("entities")}
  /\ pc' = NextEntity(0)
  /\ UNCHANGED <<payload, env, dirs, cli, firstFailure, results, res, timer>>
  /\ UNCHANGED <<patchVars, generatorVars, closedAt>>

\* projectController.ts:374-385 and 749-768: one turn of the loop, up to
\* the choice of generating the boilerplate.  Reading the name of a null
\* element throws before the try of the loop: the error reaches the catch
\* of the handler (194-208, 273-277), which answers 500.
GenerateSingleEntity ==
  /\ pc.at = "entities" /\ pc.sub = "entity"
  /\ LET entityDef == Entities[pc.i]
     IN IF ~entityDef.isObject
        THEN /\ firstFailure' = Fail(<<"entity", pc.i>>, FALSE)
             /\ dirs' \in CatchCleanup(dirs)
             /\ res' = ErrorResponse(500)
             /\ pc' = Done
             /\ UNCHANGED <<attempted, results>>
        ELSE \E entityResult \in GenerateEntityResults :
               /\ attempted' = attempted \cup {<<"entity", pc.i>>}
               /\ firstFailure' = Fail(<<"entity", pc.i>>, entityResult.success)
               /\ results' =
                    [results EXCEPT !.entities =
                       PushEntityResult(@, pc.i, entityResult)]
               /\ pc' = IF ShouldGenerateBoilerplate(entityDef,
                                                     entityResult.success)
                        THEN EntityPc(pc.i, "commands")
                        ELSE NextEntity(pc.i)
               /\ UNCHANGED <<dirs, res>>
  /\ UNCHANGED <<payload, env, cli, timer>>
  /\ UNCHANGED <<patchVars, generatorVars, closedAt>>

\* projectController.ts:389 and 774-797
GenerateEntityCommands ==
  /\ pc.at = "entities" /\ pc.sub = "commands"
  /\ RunStep(<<"commands", pc.i>>, EntityPc(pc.i, "handlers"))
  /\ UNCHANGED <<payload, env, dirs, cli, results, res, timer>>
  /\ UNCHANGED <<patchVars, generatorVars, closedAt>>

\* projectController.ts:392 and 803-830
GenerateEntityHandlers ==
  /\ pc.at = "entities" /\ pc.sub = "handlers"
  /\ RunStep(<<"handlers", pc.i>>, EntityPc(pc.i, "repository"))
  /\ UNCHANGED <<payload, env, dirs, cli, results, res, timer>>
  /\ UNCHANGED <<patchVars, generatorVars, closedAt>>

\* projectController.ts:395 and 836-864
GenerateEntityRepository ==
  /\ pc.at = "entities" /\ pc.sub = "repository"
  /\ RunStep(<<"repository", pc.i>>, NextEntity(pc.i))
  /\ UNCHANGED <<payload, env, dirs, cli, results, res, timer>>
  /\ UNCHANGED <<patchVars, generatorVars, closedAt>>

\* projectController.ts:466-511: updateApplicationDbContext is called only
\* when createInfrastructureLayer succeeded.
GenerateInfrastructureLayer ==
  /\ pc.at = "infrastructure"
  /\ \E success \in BOOLEAN, dbContextUpdated \in BOOLEAN :
       /\ attempted' = attempted \cup {Step("infrastructure")}
                         \cup (IF success THEN {Step("dbContext")} ELSE {})
       /\ firstFailure' =
            IF ~success THEN Fail(Step("infrastructure"), FALSE)
            ELSE Fail(Step("dbContext"), dbContextUpdated)
       /\ results' = [results EXCEPT !.infrastructure =
                        IF success THEN "success" ELSE "failure"]
  /\ pc' = Pc("application")
  /\ UNCHANGED <<payload, env, dirs, cli, res, timer>>
  /\ UNCHANGED <<patchVars, generatorVars, closedAt>>

\* projectController.ts:516-554
GenerateApplicationLayer ==
  /\ pc.at = "application"
  /\ RunStep(Step("application"), Pc("ioc"))
  /\ UNCHANGED <<payload, env, dirs, cli, results, res, timer>>
  /\ UNCHANGED <<patchVars, generatorVars, closedAt>>

\* projectController.ts:416-461: without a successful entity the step
\* returns; otherwise addMultipleEntityRegistrations is called with the
\* names that pass the filter, and results.ioc tells what it returned.
UpdateIoCRegistrations ==
  /\ pc.at = "ioc"
  /\ attempted' = attempted \cup {Step("ioc")}
  /\ IF SuccessfulEntities = <<>>
     THEN UNCHANGED <<firstFailure, results>>
     ELSE \E ok \in BOOLEAN :
            /\ firstFailure' = Fail(Step("ioc"), ok)
            /\ results' = [results EXCEPT !.ioc =
                             IF ok
                             THEN [state |-> "success",
                                   entities |-> SuccessfulEntities]
                             ELSE [state |-> "failure", entities |-> <<>>]]
  /\ pc' = Pc("api")
  /\ UNCHANGED <<payload, env, dirs, cli, res, timer>>
  /\ UNCHANGED <<patchVars, generatorVars, closedAt>>

\* projectController.ts:559-621: the controllers are generated only when
\* createApiConfigurations succeeded.
GenerateApiConfigurations ==
  /\ pc.at = "api"
  /\ \E success \in BOOLEAN, controllers \in BOOLEAN :
       /\ attempted' = attempted \cup {Step("api")}
                         \cup (IF success THEN {Step("controllers")} ELSE {})
       /\ firstFailure' =
            IF ~success THEN Fail(Step("api"), FALSE)
            ELSE Fail(Step("controllers"), controllers)
       /\ results' = [results EXCEPT !.api =
                        IF success THEN "success" ELSE "failure"]
  /\ pc' = Pc("nuget")
  /\ UNCHANGED <<payload, env, dirs, cli, res, timer>>
  /\ UNCHANGED <<patchVars, generatorVars, closedAt>>

\* projectController.ts:626-685 and nugetService.ts:170, 237: the SDK check
\* and, when the SDK is there, the package installation.
InstallNuGetPackages ==
  /\ pc.at = "nuget"
  /\ RunStep(Step("nuget"), AfterSteps)
  /\ cli' = cli \cup {"dotnet --version"}
                \cup (IF env.dotnetInstalled THEN {"dotnet add package"} ELSE {})
  /\ UNCHANGED <<payload, env, dirs, results, res, timer>>
  /\ UNCHANGED <<patchVars, generatorVars, closedAt>>

\* ------------------------------------------------- response and cleanup
\* projectController.ts:162-180: the headers are set, the archive is piped
\* into the response, the project directory is added and finalize() is
\* called.
StartArchive ==
  /\ pc.at = "archive"
  /\ res' = ZipResponse(payload.projectOptions.name)
  /\ pc' = Pc("finalize")
  /\ UNCHANGED <<payload, env, dirs, cli, attempted, firstFailure, results,
                 timer>>
  /\ UNCHANGED <<patchVars, generatorVars, closedAt>>

\* projectController.ts:180-208: finalize() resolves and the cleanup timer
\* is set, or it rejects and the catch block removes the directory and
\* tries to answer 500 on the response the archive is piped into.
FinalizeArchive ==
  /\ pc.at = "finalize"
  /\ \E finalized \in BOOLEAN :
       IF finalized
       THEN /\ timer' = "pending"
            /\ UNCHANGED <<dirs, res>>
       ELSE /\ dirs' \in CatchCleanup(dirs)
            /\ res' \in {res, [res EXCEPT !.status = 500, !.body = "error"]}
            /\ timer' = timer
  /\ pc' = Done
  /\ UNCHANGED <<payload, env, cli, attempted, firstFailure, results>>
  /\ UNCHANGED <<patchVars, generatorVars, closedAt>>

\* projectController.ts:185-192: the timer fires, five seconds later.
\* rmSync removes the directory, or throws and the error is logged.
RmSyncKeeping(d, removed) == d

RmSync(d, removed) == IF removed THEN d \ {"project"} ELSE d

CleanupTimer ==
  /\ timer = "pending"
  /\ \E removed \in BOOLEAN :
       /\ dirs' = RmSync(dirs, removed)
       /\ timer' = IF removed THEN "removed" ELSE "warned"
  /\ UNCHANGED <<payload, env, pc, cli, attempted, firstFailure, results, res>>
  /\ UNCHANGED <<patchVars, generatorVars, closedAt>>

\* projectController.ts:268-271: the scaffold route answers 201.
RespondCreated ==
  /\ pc.at = "respond"
  /\ res' = SuccessResponse(201)
  /\ pc' = Done
  /\ UNCHANGED <<payload, env, dirs, cli, attempted, firstFailure, results,
                 timer>>
  /\ UNCHANGED <<patchVars, generatorVars, closedAt>>

\* A validation that tries the creation out: it leaves the project
\* directory behind.
PerformScaffoldValidationCreating ==
  /\ pc.at = "validation"
  /\ res' = SuccessResponse(200)
  /\ cli' = cli \cup {"dotnet new list"}
  /\ dirs' = dirs \cup {"project"}
  /\ pc' = Done
  /\ UNCHANGED <<payload, env, attempted, firstFailure, results, timer>>
  /\ UNCHANGED <<patchVars, generatorVars, closedAt>>

\* projectController.ts:94-98: the 200 answer of validate-scaffold, whose
\* data is the validation with its readyToScaffold flag.
ValidationResponse(readyToScaffold) ==
  [status |-> 200, contentType |-> "application/json", disposition |-> <<>>,
   body |-> "success", readyToScaffold |-> readyToScaffold]

\* projectController.ts:991-1025, validateProjectTemplate: project.valid is
\* lost when the template is not in the list of `dotnet new list` or when
\* the output directory is not writable; an existing target directory d is
\* pushed to conflicts, with a warning unless force is set, and leaves
\* valid as it is.  The name of the project is not looked at.
ValidateProjectTemplate(projectOptions, d, templateExists, writable) ==
  [valid |-> templateExists /\ writable,
   conflicts |-> IF "project" \in d THEN {"project"} ELSE {},
   warnings |-> (IF templateExists THEN {} ELSE {"template"})
                \cup (IF "project" \in d /\ ~projectOptions.force
                      THEN {"force"} ELSE {})
                \cup (IF writable THEN {} ELSE {"write"})]

\* projectController.ts:976-978
ReadyToScaffold(project, templatesValid, entitiesValid) ==
  project.valid /\ templatesValid /\ entitiesValid

\* projectController.ts:94-104 and 933-986: the validation lists the
\* templates with `dotnet new list` and answers 200; a null element of
\* entities throws at line 953 and the answer is 500.  The host decides
\* whether the template is listed, the output directory writable and the
\* template files present (1030-1057); the entities of the request have
\* their names and property types or not (1062-1157).
PerformScaffoldValidation ==
  /\ pc.at = "validation"
  /\ IF \E k \in DOMAIN Entities : ~Entities[k].isObject
     THEN res' = ErrorResponse(500) /\ cli' = cli
     ELSE /\ \E templateExists \in BOOLEAN, writable \in BOOLEAN,
                templatesValid \in BOOLEAN, entitiesValid \in BOOLEAN :
               LET project == ValidateProjectTemplate(payload.projectOptions,
                                dirs, templateExists, writable)
               IN res' = ValidationResponse(
                           ReadyToScaffold(project, templatesValid,
                                           entitiesValid))
          /\ cli' = cli \cup {"dotnet new list"}
  /\ pc' = Done
  /\ UNCHANGED <<payload, env, dirs, attempted, firstFailure, results, timer>>
  /\ UNCHANGED <<patchVars, generatorVars, closedAt>>

\* What a disconnect of the client makes of the handler, were the handler
\* to stop on it.
OnCloseCancelling(position) == Done

\* The handlers register no listener for 'close' or 'aborted' on req or
\* res, and execAsync is given no AbortSignal (projectService.ts:77-80,
\* 201-208): a disconnect leaves the handler where it is.
OnClose(position) == position

\* The client disconnects while its download request is being handled,
\* before or after the project was created.
ClientDisconnect ==
  /\ closedAt = "open"
  /\ payload.route = "scaffold-download"
  /\ pc # Done
  /\ closedAt' = IF results.projectCreated THEN "generation" ELSE "creation"
  /\ pc' = OnClose(pc)
  /\ UNCHANGED <<payload, env, dirs, cli, attempted, firstFailure, results, res,
                 timer>>
  /\ UNCHANGED <<patchVars, generatorVars>>

\* The directories that may exist when the request arrives.
DirsBefore == {{}, {"temp"}, {"project"}, {"temp", "project"}}

ScaffoldInit ==
  /\ payload \in [route : Routes, projectOptions : ProjectOptionsValues,
                  entities : EntitiesValues]
  /\ env \in [dotnetInstalled : BOOLEAN, dirsBefore : DirsBefore]
  /\ payload.route = "scaffold-download" /\ "project" \in env.dirsBefore
       => "temp" \in env.dirsBefore
  /\ pc = Pc("received")
  /\ dirs = env.dirsBefore
  /\ cli = {}
  /\ attempted = {}
  /\ firstFailure = NoStep
  /\ results = InitialScaffoldResults
  /\ res = NoResponse
  /\ timer = "none"
  /\ closedAt = "open"
  /\ iocFile = NoFile /\ dbFile = NoFile /\ lastCall = NoCall /\ reqs = NoReqs
  /\ NoGenerators

ScaffoldNext ==
  \/ ReceiveRequest
  \/ CreateProject
  \/ DotNetNew
  \/ CreateCleanArchitectureStructure
  \/ GenerateBaseRepositories
  \/ GenerateDomainHelpers
  \/ GenerateEntitiesAndCompleteBoilerplate
  \/ GenerateSingleEntity
  \/ GenerateEntityCommands
  \/ GenerateEntityHandlers
  \/ GenerateEntityRepository
  \/ GenerateInfrastructureLayer
  \/ GenerateApplicationLayer
  \/ UpdateIoCRegistrations
  \/ GenerateApiConfigurations
  \/ InstallNuGetPackages
  \/ StartArchive
  \/ FinalizeArchive
  \/ CleanupTimer
  \/ RespondCreated
  \/ PerformScaffoldValidation
  \/ ClientDisconnect

SpecScaffold == ScaffoldInit /\ [][ScaffoldNext]_vars

\* The timer of setTimeout fires while the process runs.
FairSpecScaffold == SpecScaffold /\ WF_vars(CleanupTimer)

\* Every external process the handler awaits ends, and the event loop then
\* runs the continuation of the handler.
FairSpecHandler == SpecScaffold /\ WF_vars(ScaffoldNext)

\* -------------------------------------------------------------------- C4
\* C4 as claimed: once the project is created, whatever step fails, every
\* one of the eight steps, every entity and, for every entity that asks
\* for them, its commands, handler and repository are attempted before the
\* handler ends (the elements of entities being objects).
C4_EveryLaterStepAttempted ==
  (/\ results.projectCreated
   /\ pc = Done
   /\ \A i \in DOMAIN Entities : Entities[i].isObject)
  => /\ \A k \in DOMAIN Steps : Step(Steps[k]) \in attempted
     /\ \A i \in DOMAIN Entities :
          /\ <<"entity", i>> \in attempted
          /\ Entities[i].generateCommands
             => /\ <<"commands", i>> \in attempted
                /\ <<"handlers", i>> \in attempted
                /\ <<"repository", i>> \in attempted

\* C4 as amended: once the project is created, the handler ends before the
\* last step only when an element of entities is null.  When it has run
\* the last step, it has attempted every one of the eight steps and every
\* entity; it has attempted the commands, handler and repository of an
\* entity exactly when the entity asks for them and was generated, the
\* DbContext update exactly when the infrastructure layer succeeded, and
\* the controllers exactly when the API configuration succeeded.
C4_FailureSkipsOnlyDependents ==
  /\ (results.projectCreated /\ pc = Done /\ Step("nuget") \notin attempted)
     => /\ \E i \in DOMAIN Entities : ~Entities[i].isObject
        /\ res = ErrorResponse(500)
        /\ Step("infrastructure") \notin attempted
  /\ Step("nuget") \in attempted
     => /\ \A k \in DOMAIN Steps : Step(Steps[k]) \in attempted
        /\ \A i \in DOMAIN Entities :
             /\ <<"entity", i>> \in attempted
             /\ \A sub \in {"commands", "handlers", "repository"} :
                  <<sub, i>> \in attempted
                    <=> Entities[i].generateCommands /\ results.entities[i].success
        /\ Step("dbContext") \in attempted
             <=> results.infrastructure = "success"
        /\ Step("controllers") \in attempted <=> results.api = "success"

\* The first step failed, the first entity failed, the infrastructure
\* layer failed, and the handler went on to the second entity, to its
\* boilerplate, to the last step and to the zip.
C4_Witness ==
  /\ firstFailure = Step("baseRepositories")
  /\ Len(results.entities) = 2
  /\ ~results.entities[1].success /\ results.entities[2].success
  /\ <<"repository", 2>> \in attempted
  /\ <<"commands", 1>> \notin attempted
  /\ results.infrastructure = "failure"
  /\ Step("nuget") \in attempted
  /\ res.body = "zip"

\* -------------------------------------------------------------------- C5
\* C5: a request whose projectOptions.name is missing or empty, or whose
\* entities is missing, not an array or empty, is answered with 400 and
\* success: false on each of the three routes, and for it no directory is
\* created, no external command is run and no timer is set.
InvalidPayload ==
  \/ ~payload.projectOptions.hasName
  \/ payload.projectOptions.name = <<>>
  \/ payload.entities.kind # "array"
  \/ payload.entities.items = <<>>

C5_InvalidPayloadRejected ==
  InvalidPayload
  => /\ pc.at \in {"received", "done"}
     /\ pc = Done => res = ErrorResponse(400)
     /\ dirs = env.dirsBefore
     /\ cli = {}
     /\ timer = "none"

\* A download request with a name and an empty entities array has been
\* answered.
C5_Witness ==
  /\ payload.route = "scaffold-download"
  /\ payload.projectOptions.name = <<"S">>
  /\ payload.entities = [kind |-> "array", items |-> <<>>]
  /\ env.dotnetInstalled
  /\ pc = Done
  /\ res.status = 400

\* -------------------------------------------------------------------- C6
\* C6: a response that streams a zip carries Content-Type application/zip
\* and Content-Disposition with <name>.zip, and these headers are set only
\* on the download route, after the project was created and all eight
\* steps have run.
C6_ZipHeadersAfterAllSteps ==
  /\ res.body = "zip"
     => /\ res.contentType = "application/zip"
        /\ res.disposition = payload.projectOptions.name \o <<".zip">>
  /\ (res.contentType = "application/zip" \/ res.disposition # <<>>)
     => /\ payload.route = "scaffold-download"
        /\ results.projectCreated
        /\ \A k \in DOMAIN Steps : Step(Steps[k]) \in attempted

\* The zip is being streamed, before finalize() has resolved.
C6_Witness ==
  /\ pc.at = "finalize"
  /\ res.body = "zip"
  /\ res.disposition = <<"S", ".zip">>

\* -------------------------------------------------------------------- C7
\* C7 as claimed: after finalize() resolved and the timer was set, the
\* directory of the request is eventually deleted.
C7_DirectoryEventuallyDeleted ==
  (timer = "pending") ~> ("project" \notin dirs)

\* C7 as amended: after finalize() resolved, the timer eventually runs
\* rmSync on the directory, once; the directory is deleted when rmSync
\* returns, and stays when rmSync throws, which is only logged.
C7_TimerRunsRmSyncOnce ==
  /\ (timer = "pending") ~> (timer \in {"removed", "warned"})
  /\ [](timer = "removed" => "project" \notin dirs)
  /\ [](timer = "warned" => "project" \in dirs)
  /\ [][(timer \in {"removed", "warned"}) => (timer' = timer)]_vars

\* The zip was sent, the timer has fired and the directory is gone.
C7_Witness ==
  /\ res.body = "zip"
  /\ timer = "removed"
  /\ "project" \notin dirs
  /\ "temp" \in dirs

\* -------------------------------------------------------------------- C8
\* C8: a download request whose project creation failed after the
\* directory was made (a command of createCleanArchitectureStructure
\* failed) has its 400 response while the directory exists and no cleanup
\* is pending, and nothing changes that afterwards.
C8_FailedCreationLeaksDirectory ==
  /\ (/\ payload.route = "scaffold-download"
      /\ pc = Done
      /\ ~results.projectCreated
      /\ "dotnet new sln" \in cli)
     => /\ res = ErrorResponse(400)
        /\ "project" \in dirs
        /\ timer = "none"
  /\ res.status = 400 => timer = "none"

\* The request made the directory, failed, and was answered.
C8_Witness ==
  /\ payload.route = "scaffold-download"
  /\ "project" \notin env.dirsBefore
  /\ "project" \in dirs
  /\ "dotnet new sln" \in cli
  /\ pc = Done
  /\ res.status = 400
  /\ timer = "none"

\* -------------------------------------------------------------------- C9
\* C9: when dotnet is not installed, no project-creation command is run,
\* the project directory is not created, and a request that reached
\* createProject is answered with the JSON error response 400.
C9_MissingDotNetIsOrdinaryError ==
  ~env.dotnetInstalled
  => /\ cli \cap ProjectCreationCommands = {}
     /\ "project" \in dirs => "project" \in env.dirsBefore
     /\ ~results.projectCreated
     /\ (pc = Done /\ "dotnet --version" \in cli) => res = ErrorResponse(400)
     /\ pc.at \in {"received", "validation", "checkDotNet", "done"}

\* A valid download request on a host without dotnet has been answered.
C9_Witness ==
  /\ ~env.dotnetInstalled
  /\ payload.route = "scaffold-download"
  /\ "dotnet --version" \in cli
  /\ pc = Done
  /\ res = ErrorResponse(400)

\* ==================================================== SpecGenerators
\* The generator services called on a created project, for one entity E:
\* each call takes a definition, renders a template and writes, or not,
\* its destination file.
GeneratedFiles ==
  {"{E}Entity.cs", "Create{E}Command.cs", "Update{E}Command.cs", "{E}Handler.cs",
   "I{E}Repository.cs", "ApplicationDbContext.cs", "{E}Repository.cs",
   "{E}Controller.cs"}

\* The definitions of E a call may be given: without and with a property.
Definitions == [name : {1}, properties : {<<>>, <<"Title">>}]

\* A file written by hand, or changed after it was generated.
Edited == <<"edited">>

\* What a template renders: the entity, command and handler templates use
\* the properties of the definition (entityService.ts:26, commandService.ts:
\* 36-47, unnamed/part_001:296), the others the name alone.
Render(file, definition) ==
  IF file \in {"{E}Entity.cs", "Create{E}Command.cs", "Update{E}Command.cs", "{E}Handler.cs"}
  THEN <<"generated", file, definition.properties>>
  ELSE <<"generated", file>>

\* existsSync(filePath) before writeFileSync (entityService.ts:69-79,
\* infrastructureService.ts:122-136 and 265-278): old is the content of the
\* destination, NoFile when there is none.
WriteAlways(old, new) == new

WriteIfMissing(old, new) == IF old # NoFile THEN old ELSE new

\* A generator call: the files it leaves, and the record of the call.
Generated(generator, destinations, newFiles) ==
  /\ files' = newFiles
  /\ lastGen' = [generator |-> generator,
                 existed |-> \E f \in destinations : files[f] # NoFile,
                 changed |-> \E f \in destinations : newFiles[f] # files[f]]
  /\ UNCHANGED <<patchVars, scaffoldVars, templates, loads, lastGet>>

\* entityService.ts:52-97
GenerateEntity ==
  \E definition \in Definitions :
    Generated("generateEntity", {"{E}Entity.cs"},
      [files EXCEPT !["{E}Entity.cs"] =
         WriteIfMissing(@, Render("{E}Entity.cs", definition))])

\* commandService.ts:52-106
GenerateCommandFile ==
  \E definition \in Definitions :
    Generated("generateCommandFile", {"Create{E}Command.cs", "Update{E}Command.cs"},
      [files EXCEPT !["Create{E}Command.cs"] = Render("Create{E}Command.cs", definition),
                    !["Update{E}Command.cs"] = Render("Update{E}Command.cs", definition)])

\* unnamed/part_001:233-293
GenerateHandlerFile ==
  \E definition \in Definitions :
    Generated("generateHandlerFile", {"{E}Handler.cs"},
      [files EXCEPT !["{E}Handler.cs"] = Render("{E}Handler.cs", definition)])

\* repositoryService.ts:39-70
GenerateEntityRepositoryInterface ==
  \E definition \in Definitions :
    Generated("generateEntityRepository", {"I{E}Repository.cs"},
      [files EXCEPT !["I{E}Repository.cs"] =
         Render("I{E}Repository.cs", definition)])

\* infrastructureService.ts:116-151
CreateApplicationDbContext ==
  \E definition \in Definitions :
    Generated("createApplicationDbContext", {"ApplicationDbContext.cs"},
      [files EXCEPT !["ApplicationDbContext.cs"] =
         WriteIfMissing(@, Render("ApplicationDbContext.cs", definition))])

\* infrastructureService.ts:259-293
CreateEntityRepository ==
  \E definition \in Definitions :
    Generated("createEntityRepository", {"{E}Repository.cs"},
      [files EXCEPT !["{E}Repository.cs"] =
         WriteIfMissing(@, Render("{E}Repository.cs", definition))])

\* infrastructureService.ts:692-757
CreateEntityController ==
  \E definition \in Definitions :
    Generated("createEntityController", {"{E}Controller.cs"},
      [files EXCEPT !["{E}Controller.cs"] = Render("{E}Controller.cs", definition)])

GeneratorsInit ==
  /\ files \in [GeneratedFiles -> {NoFile, Edited}]
  /\ lastGen = NoGen
  /\ NoTemplates
  /\ iocFile = NoFile /\ dbFile = NoFile /\ lastCall = NoCall /\ reqs = NoReqs
  /\ NoScaffold

GeneratorsNext ==
  \/ GenerateEntity
  \/ GenerateCommandFile
  \/ GenerateHandlerFile
  \/ GenerateEntityRepositoryInterface
  \/ CreateApplicationDbContext
  \/ CreateEntityRepository
  \/ CreateEntityController

SpecGenerators == GeneratorsInit /\ [][GeneratorsNext]_vars

TemplatesHasNever(templatePath) == FALSE

\* this.templates.has(templatePath), TemplateManager.ts:19
TemplatesHas(templatePath) == templates[templatePath] # 0

\* TemplateManager.getTemplate(templatePath), TemplateManager.ts:17-52.
\* found is where the template file is at the time of the call: under
\* __dirname/../templates ("src"), only under cwd/dist/templates ("dist"),
\* or nowhere ("none", readFileSync throws and getTemplate throws).  A
\* compiled template is a new function object; it is numbered by the load
\* that made it.  served tells how the call ended: "cached" without any
\* file-system call, "src" or "dist" after reading that file, "threw".
GetTemplate ==
  \E templatePath \in TemplatePaths, found \in {"src", "dist", "none"} :
    /\ IF TemplatesHas(templatePath)
       THEN /\ lastGet' = [path |-> templatePath, served |-> "cached",
                           template |-> templates[templatePath]]
            /\ UNCHANGED <<templates, loads>>
       ELSE IF found = "none"
       THEN /\ lastGet' = [path |-> templatePath, served |-> "threw",
                           template |-> 0]
            /\ UNCHANGED <<templates, loads>>
       ELSE /\ loads' = [loads EXCEPT ![templatePath] = @ + 1]
            /\ templates' = [templates EXCEPT ![templatePath] = loads'[templatePath]]
            /\ lastGet' = [path |-> templatePath, served |-> found,
                           template |-> loads'[templatePath]]
    /\ UNCHANGED <<patchVars, scaffoldVars, files, lastGen>>

TemplatesInit ==
  /\ NoGenerators
  /\ iocFile = NoFile /\ dbFile = NoFile /\ lastCall = NoCall /\ reqs = NoReqs
  /\ NoScaffold

\* The services call getTemplate only; clearCache has no caller.
SpecTemplates == TemplatesInit /\ [][GetTemplate]_vars

\* ------------------------------------------------------------------- C11
\* C11: in any sequence of getTemplate calls each template path is read
\* from disk and compiled at most once, a call for a path that has an
\* entry returns that entry's compiled template without a file-system
\* call, and an entry, once made, is neither removed nor replaced.
C11_LoadOnceEvictNever ==
  /\ [](\A p \in TemplatePaths : loads[p] <= 1)
  /\ [](lastGet.served = "cached"
         => lastGet.template = templates[lastGet.path] /\ lastGet.template # 0)
  /\ [][\A p \in TemplatePaths :
         /\ (templates[p] # 0 => templates'[p] = templates[p])
         /\ (templates[p] # 0 /\ lastGet'.path = p => lastGet'.served = "cached")]_vars

\* Two paths are cached, each loaded once, one from each location, and the
\* last call was served from the cache.
C11_Witness ==
  /\ lastGet.served = "cached"
  /\ loads[lastGet.path] = 1
  /\ \E p \in TemplatePaths \ {lastGet.path} : templates[p] # 0

\* ------------------------------------------------------------------- C12
\* C12: when createProject, with dotnet installed, is given a name that
\* does not match the pattern or is longer than 50 characters, or the
\* target directory exists and force is not set, it returns success:
\* false, the directories are left as they were, and neither `dotnet new`
\* nor any other project creation command is run for the request.
C12_PreconditionFails ==
  /\ env.dotnetInstalled
  /\ payload.route # "validate-scaffold"
  /\ LET name == payload.projectOptions.name
     IN \/ name = <<>>
        \/ name[1] # "S"
        \/ \E k \in DOMAIN name : name[k] \notin {"S", "1", "_"}
        \/ Len(name) > 50
        \/ "project" \in env.dirsBefore /\ ~payload.projectOptions.force

C12_PreconditionFailureHasNoSideEffect ==
  /\ [](C12_PreconditionFails => cli \cap ProjectCreationCommands = {})
  /\ [][(C12_PreconditionFails /\ pc.at = "checkDotNet" /\ pc' # pc)
        => /\ dirs' = dirs
           /\ ~results'.projectCreated
           /\ res' = ErrorResponse(400)
           /\ pc' = Done]_vars

\* createProject has refused a name of 51 letters after the dotnet check.
C12_Witness ==
  /\ C12_PreconditionFails
  /\ Len(payload.projectOptions.name) = 51
  /\ "project" \notin env.dirsBefore
  /\ "dotnet --list-sdks" \in cli
  /\ pc = Done
  /\ res = ErrorResponse(400)

\* ------------------------------------------------------------------- C13
\* C13: a disconnect of the client during a scaffold-download request
\* leaves the handler where it is, and the handler goes on: it gets past
\* the last generation step or ends with an error of its own, and when it
\* has ended after a created project (the elements of entities being
\* objects) all eight generation steps were attempted and the package
\* installation ran its dotnet command, whenever the client left.
C13_NoCancellation ==
  /\ [][(closedAt = "open" /\ closedAt' # "open")
        => (pc' = pc /\ cli' = cli /\ dirs' = dirs)]_vars
  /\ (closedAt # "open") ~> (pc.at \in {"archive", "finalize", "done"})
  /\ [](/\ closedAt # "open"
         /\ pc = Done
         /\ results.projectCreated
         /\ (\A i \in DOMAIN Entities : Entities[i].isObject)
         => /\ \A k \in DOMAIN Steps : Step(Steps[k]) \in attempted
            /\ \A i \in DOMAIN Entities : <<"entity", i>> \in attempted
            /\ {"rm -rf", "dotnet new sln", "dotnet add package"} \subseteq cli)

\* The client left before the project was created; the project was
\* created, every step ran and the zip was written to the response.
C13_Witness ==
  /\ closedAt = "creation"
  /\ pc = Done
  /\ results.projectCreated
  /\ Len(Entities) = 2
  /\ \A i \in DOMAIN Entities : <<"repository", i>> \in attempted
  /\ "dotnet add package" \in cli
  /\ res = ZipResponse(payload.projectOptions.name)

\* ====================================================== SpecDefaults
\* The defaults createProject and the entity generator give to options the
\* request leaves out.  payload holds the options of one createProject
\* call and the definition of one entity; "" and "undefined" stand for an
\* option that is left out.  lastCall holds what the call computed.

\* projectService.ts:118-136: the `dotnet new` command, as its parts.
BuildCreateCommand(options) ==
  [template |-> IF options.template # "" THEN options.template ELSE "console",
   name |-> options.name,
   framework |-> options.framework,
   language |-> IF options.language \notin {"", "C#"} THEN options.language ELSE "",
   force |-> options.force]

\* projectService.ts:57-96: a createProject call whose command succeeds
\* and leaves the project directory: the command it runs, the template it
\* reports and whether it builds the Clean Architecture structure.
CallCreateProject ==
  /\ LET options == payload.projectOptions
         template == IF options.template # "" THEN options.template ELSE "webapi"
     IN lastCall' = [op |-> "createProject",
                     command |-> BuildCreateCommand(options),
                     template |-> template,
                     cleanArchitecture |-> template = "webapi"]
  /\ UNCHANGED <<iocFile, dbFile, reqs, scaffoldVars, generatorVars>>

\* The EntityService of src/services/iocService.ts:512-528 (the version
\* that loads its template lazily): inheritsFromBase !== false.
PrepareTemplateDataLazy(definition) ==
  [name |-> definition.name,
   namespace |-> IF definition.namespace # "" THEN definition.namespace
                 ELSE "Domain.Entities",
   baseSkip |-> ~(definition.inheritsFromBase # "false")]

\* entityService.ts:34-47, the EntityService the controllers import:
\* baseSkip is !definition.inheritsFromBase.
PrepareTemplateData(definition) ==
  [name |-> definition.name,
   namespace |-> IF definition.namespace # "" THEN definition.namespace
                 ELSE "Domain.Entities",
   baseSkip |-> ~(definition.inheritsFromBase = "true")]

\* generateEntityCode prepares the template data of payload.entity, with
\* the one or the other EntityService.
CallPrepareTemplateData ==
  /\ \/ lastCall' = [op |-> "prepareTemplateData",
                      data |-> PrepareTemplateData(payload.entity)]
     \/ lastCall' = [op |-> "prepareTemplateData (lazy)",
                      data |-> PrepareTemplateDataLazy(payload.entity)]
  /\ UNCHANGED <<iocFile, dbFile, reqs, scaffoldVars, generatorVars>>

DefaultsInit ==
  /\ payload \in
       [projectOptions :
          [name : {<<"S">>},
           template : {"", "webapi", "console", "classlib"},
           framework : {"", "net8.0"},
           language : {"", "C#", "F#"},
           force : BOOLEAN],
        entity :
          [name : {1},
           namespace : {"", "Domain.Models"},
           inheritsFromBase : {"undefined", "true", "false"}]]
  /\ env = <<>> /\ pc = <<>> /\ dirs = {} /\ cli = {} /\ attempted = {}
  /\ firstFailure = <<>> /\ results = <<>> /\ res = <<>>
  /\ timer = "none" /\ closedAt = "none"
  /\ iocFile = NoFile /\ dbFile = NoFile /\ lastCall = NoCall /\ reqs = NoReqs
  /\ NoGenerators

SpecDefaults ==
  DefaultsInit /\ [][CallCreateProject \/ CallPrepareTemplateData]_vars

\* ------------------------------------------------------------------- C14
\* C14 as claimed: when projectOptions.template is left out, the template
\* of the `dotnet new` command is webapi, the template createProject
\* reports and by which it decides to build the Clean Architecture
\* structure.
C14_DefaultTemplateIsWebapi ==
  (lastCall.op = "createProject" /\ payload.projectOptions.template = "")
  => /\ lastCall.command.template = "webapi"
     /\ lastCall.template = lastCall.command.template
     /\ lastCall.cleanArchitecture

\* ------------------------------------------------------------------- C15
\* C15 as claimed: the template data of a definition that leaves out
\* inheritsFromBase has baseSkip = false, and baseSkip is true only when
\* inheritsFromBase is false.
C15_InheritsFromBaseByDefault ==
  lastCall.op \in {"prepareTemplateData", "prepareTemplateData (lazy)"}
  => (lastCall.data.baseSkip <=> payload.entity.inheritsFromBase = "false")

\* ------------------------------------------------------------------- C16
\* C16: whatever the body of a validate-scaffold request and whatever the
\* outcome of the validation, from the arrival of the request on the
\* directories are the ones that existed before it, no command that
\* creates or removes project files is run, no generation step is
\* attempted and no cleanup timer is set.
C16_ValidateScaffoldLeavesFilesAlone ==
  payload.route = "validate-scaffold"
  => /\ dirs = env.dirsBefore
     /\ cli \subseteq {"dotnet new list"}
     /\ attempted = {}
     /\ timer = "none"

\* A validation has answered 200 for a project whose directory exists.
C16_Witness ==
  /\ payload.route = "validate-scaffold"
  /\ pc = Done
  /\ "project" \in env.dirsBefore
  /\ res.status = 200
  /\ "dotnet new list" \in cli

\* ------------------------------------------------------------------- C17
\* C17: results.entities gets one entry for each element of the request
\* the loop has passed, in request order, so once the loop has ended it
\* has exactly one entry per entity of the request; and the entities the
\* index-based filter passes on to addMultipleEntityRegistrations (those
\* results.ioc lists) are exactly the entities whose entity file was
\* written, in request order.
C17_LoopEnded ==
  pc.at \in {"infrastructure", "application", "ioc", "api", "nuget", "archive",
             "finalize", "respond"}

C17_OneResultPerEntity ==
  /\ \A k \in DOMAIN results.entities : results.entities[k].entity = k
  /\ C17_LoopEnded => Len(results.entities) = Len(Entities)
  /\ C17_LoopEnded
     => \A i \in DOMAIN Entities :
          (\E k \in DOMAIN SuccessfulEntities : SuccessfulEntities[k] = i)
          <=> results.entities[i].files > 0
  /\ results.ioc.state = "success"
     => /\ \A i \in DOMAIN results.entities :
             (\E k \in DOMAIN results.ioc.entities : results.ioc.entities[k] = i)
             <=> results.entities[i].files > 0
        /\ \A j, k \in DOMAIN results.ioc.entities :
             j < k => results.ioc.entities[j] < results.ioc.entities[k]

\* Of two entities the first failed and the second was written, and the
\* bootstrapper was given the second alone.
C17_Witness ==
  /\ Len(Entities) = 2
  /\ Len(results.entities) = 2
  /\ ~results.entities[1].success
  /\ results.entities[2].files = 1
  /\ results.ioc = [state |-> "success", entities |-> <<2>>]
  /\ pc = Done

\* ------------------------------------------------------------------- C18
\* C18 as claimed: at the end of a scaffold run, every entity whose
\* repository and handler lines were added to the bootstrapper (the
\* entities results.ioc lists) had the generation of its repository
\* interface and of its handler run for it.
C18_IocReferencesGeneratedCode ==
  (pc = Done /\ results.ioc.state = "success")
  => \A k \in DOMAIN results.ioc.entities :
       /\ <<"handlers", results.ioc.entities[k]>> \in attempted
       /\ <<"repository", results.ioc.entities[k]>> \in attempted

\* ======================================================== SpecIocAny
\* The two patch calls of IoCService on any bootstrapper file: the file
\* is missing, or it is made of the lines of IocLines in any number and
\* order, with or without the marker lines.

IocAnyInit ==
  /\ iocFile \in IocFiles \cup {NoFile}
  /\ dbFile = NoFile
  /\ lastCall = NoCall
  /\ reqs = NoReqs
  /\ NoScaffold
  /\ NoGenerators

SpecIocAny == IocAnyInit /\ [][IocNext]_vars

\* ------------------------------------------------------------------- C19
\* C19 as claimed: a registration line that a call of
\* addMultipleEntityRegistrations adds to a file is put after the first
\* line that contains its marker, with nothing between the marker line
\* and it but lines the same call added, wherever the marker line is.
C19_AddedAfterMarker(old, new, registration, region) ==
  (~Includes(old, registration) /\ Includes(new, registration))
  => LET k == IndexOfLine(new, registration)
         m == IndexOfLine(new, region)
     IN /\ m # 0 /\ m < k
        /\ \A j \in (m + 1)..(k - 1) :
             \E e \in EntityNames :
               \/ /\ LineIncludes(new[j], RepositoryRegistration(e))
                  /\ ~Includes(old, RepositoryRegistration(e))
               \/ /\ LineIncludes(new[j], HandlerRegistration(e))
                  /\ ~Includes(old, HandlerRegistration(e))

C19_InsertedAfterMarkerLine ==
  [][lastCall'.op = "addMultipleEntityRegistrations"
     => \A e \in EntityNames :
          /\ C19_AddedAfterMarker(iocFile, iocFile', RepositoryRegistration(e),
                                  RegionRepositories)
          /\ C19_AddedAfterMarker(iocFile, iocFile', HandlerRegistration(e),
                                  RegionHandlers)]_vars

\* ------------------------------------------------------------------- C20
\* C20 as claimed: when addEntityRegistrations or
\* addMultipleEntityRegistrations has returned success: true, the file
\* holds the repository line and the handler line of every entity of the
\* call, that is isEntityRegistered is true for it, whatever markers the
\* file had.
C20_SuccessMeansRegistered ==
  (lastCall.op \in {"addEntityRegistrations", "addMultipleEntityRegistrations"}
   /\ lastCall.success)
  => lastCall.registered

\* ========================================================= SpecDbAny
\* The two patch calls of InfrastructureService on any context file: the
\* file is missing, or it is made of the lines of DbLines and the two
\* lines that close a constructor, in any number and order, with no
\* '#region DbSet' line, one or several.
DbAnyLines ==
  DbLines \cup { <<Spaces(8), BaseOptions>>, <<Spaces(8), CloseBrace>> }

DbAnyFiles == UNION {[1..n -> DbAnyLines] : n \in 1..MaxFileLines}

DbAnyInit ==
  /\ dbFile \in DbAnyFiles \cup {NoFile}
  /\ iocFile = NoFile
  /\ lastCall = NoCall
  /\ reqs = NoReqs
  /\ NoScaffold
  /\ NoGenerators

SpecDbAny == DbAnyInit /\ [][DbNext]_vars

\* ------------------------------------------------------------------- C21
\* The content that calling addEntityToDbContext once per name of
\* entityNames, in list order from index i on, leaves in the file.
RECURSIVE C21_OneByOne(_, _, _)
C21_OneByOne(file, entityNames, i) ==
  IF i > Len(entityNames) THEN file
  ELSE C21_OneByOne(AddEntityToDbContext(file, entityNames[i]).content,
                    entityNames, i + 1)

\* C21 as claimed: for every content of ApplicationDbContext.cs and every
\* list of entity names, addMultipleEntitiesToDbContext leaves the file
\* with the content that addEntityToDbContext called once per name in list
\* order leaves, also when the file has no '#region DbSet' line or more
\* than one.
C21_BatchAgreesWithSingleCalls ==
  \A ns \in NameLists :
    AddMultipleEntitiesToDbContext(dbFile, ns).content
      = C21_OneByOne(dbFile, ns, 1)

C24_ReadyToScaffoldIsSound ==
  (/\ payload.route = "validate-scaffold"
   /\ pc = Done
   /\ res.status = 200
   /\ res.readyToScaffold)
  => /\ IsValidProjectName(payload.projectOptions.name)
     /\ ~("project" \in dirs /\ ~payload.projectOptions.force)

\* ========================================================== SpecTemp
\* Two scaffold-download requests for the same project name, interleaved
\* at their await points.  Both work in temp/<name>, since tempProjectPath
\* is path.join(tempDir, projectOptions.name) (projectController.ts:121-134);
\* "project" in dirs stands for that directory.  reqs[r] holds where the
\* handler of request r is, the force option of its body and its cleanup
\* timer.

\* projectController.ts:111-137: the request has arrived with a valid body.
TempRequest(force) == [pc |-> "received", force |-> force, timer |-> "none"]

\* projectController.ts:127-137 and projectService.ts:36-79: temp/ is made,
\* dotnet is found, the name is valid; createProject refuses a directory
\* that exists unless force is set, and the handler answers 400 and
\* returns; otherwise `dotnet new` is started and awaited.
TempCreateProject(r) ==
  /\ reqs[r].pc = "received"
  /\ reqs' = [reqs EXCEPT ![r].pc =
                IF "project" \in dirs /\ ~reqs[r].force
                THEN "done" ELSE "dotnetNew"]
  /\ dirs' = dirs \cup {"temp"}
  /\ UNCHANGED <<iocFile, dbFile, lastCall, generatorVars>>
  /\ UNCHANGED <<payload, env, pc, cli, attempted, firstFailure, results, res,
                 timer, closedAt>>

\* projectService.ts:77-112 and 196-202: `dotnet new` ends.  It threw or
\* not, and it created the directory or not; a failure is answered with
\* 400 without cleanup (projectController.ts:139-143).  With the directory
\* there `rm -rf` is started on it and awaited.
TempDotNetNew(r) ==
  /\ reqs[r].pc = "dotnetNew"
  /\ \E threw \in BOOLEAN, created \in BOOLEAN :
       /\ dirs' = IF created THEN dirs \cup {"project"} ELSE dirs
       /\ reqs' = [reqs EXCEPT ![r].pc =
                     IF threw \/ "project" \notin dirs'
                     THEN "done" ELSE "cleanArchitecture"]
  /\ UNCHANGED <<iocFile, dbFile, lastCall, generatorVars>>
  /\ UNCHANGED <<payload, env, pc, cli, attempted, firstFailure, results, res,
                 timer, closedAt>>

\* projectService.ts:196-233: `rm -rf` has ended, the directory is made
\* again with mkdirSync and the solution and its projects are created in
\* it; a command that throws makes createProject fail, which is answered
\* with 400 without cleanup.
TempCreateCleanArchitectureStructure(r) ==
  /\ reqs[r].pc = "cleanArchitecture"
  /\ \E threw \in BOOLEAN :
       reqs' = [reqs EXCEPT ![r].pc = IF threw THEN "done" ELSE "generating"]
  /\ dirs' = dirs \cup {"project"}
  /\ UNCHANGED <<iocFile, dbFile, lastCall, generatorVars>>
  /\ UNCHANGED <<payload, env, pc, cli, attempted, firstFailure, results, res,
                 timer, closedAt>>

\* projectController.ts:153-177: the eight awaited generation steps write
\* into the directory (their mkdirSync calls are recursive), then the zip
\* headers are set, the archive is piped and the directory is added to it.
TempGenerate(r) ==
  /\ reqs[r].pc = "generating"
  /\ reqs' = [reqs EXCEPT ![r].pc = "archiving"]
  /\ dirs' = dirs \cup {"project"}
  /\ UNCHANGED <<iocFile, dbFile, lastCall, generatorVars>>
  /\ UNCHANGED <<payload, env, pc, cli, attempted, firstFailure, results, res,
                 timer, closedAt>>

\* projectController.ts:180-208: finalize() resolves and the cleanup timer
\* of the request is set, or it rejects and the catch block runs rmSync on
\* temp/<name>.
TempFinalizeArchive(r) ==
  /\ reqs[r].pc = "archiving"
  /\ \E finalized \in BOOLEAN, removed \in BOOLEAN :
       IF finalized
       THEN /\ reqs' = [reqs EXCEPT ![r].pc = "done", ![r].timer = "pending"]
            /\ dirs' = dirs
       ELSE /\ reqs' = [reqs EXCEPT ![r].pc = "done"]
            /\ dirs' = RmSync(dirs, removed)
  /\ UNCHANGED <<iocFile, dbFile, lastCall, generatorVars>>
  /\ UNCHANGED <<payload, env, pc, cli, attempted, firstFailure, results, res,
                 timer, closedAt>>

\* projectController.ts:185-192: the timer of request r fires, five
\* seconds after its archive was finalized, wherever the other request is.
TempCleanupTimer(r) ==
  /\ reqs[r].timer = "pending"
  /\ \E removed \in BOOLEAN :
       /\ dirs' = RmSync(dirs, removed)
       /\ reqs' = [reqs EXCEPT ![r].timer =
                     IF removed THEN "removed" ELSE "warned"]
  /\ UNCHANGED <<iocFile, dbFile, lastCall, generatorVars>>
  /\ UNCHANGED <<payload, env, pc, cli, attempted, firstFailure, results, res,
                 timer, closedAt>>

\* Both requests have arrived; temp/ and temp/<name> exist or not.
TempInit ==
  /\ reqs \in [Requests -> {TempRequest(force) : force \in BOOLEAN}]
  /\ dirs \in DirsBefore
  /\ "project" \in dirs => "temp" \in dirs
  /\ payload = <<>> /\ env = <<>> /\ pc = <<>> /\ cli = {}
  /\ attempted = {} /\ firstFailure = <<>> /\ results = <<>> /\ res = <<>>
  /\ timer = "none" /\ closedAt = "none"
  /\ iocFile = NoFile /\ dbFile = NoFile /\ lastCall = NoCall
  /\ NoGenerators

TempNext ==
  \E r \in Requests :
    \/ TempCreateProject(r)
    \/ TempDotNetNew(r)
    \/ TempCreateCleanArchitectureStructure(r)
    \/ TempGenerate(r)
    \/ TempFinalizeArchive(r)
    \/ TempCleanupTimer(r)

SpecTemp == TempInit /\ [][TempNext]_vars

\* ------------------------------------------------------------------- C22
\* C22 as claimed: when the cleanup timer of one scaffold-download
\* request, or the catch block of one request whose archive failed,
\* deletes temp/<name>, no other request with the same project name is
\* generating into that directory or archiving it at that moment.
C22_CleanupSparesOtherRequest ==
  [][\A r \in Requests, o \in Requests :
       (/\ r # o
        /\ reqs'[r] # reqs[r]
        /\ reqs[r].pc \in {"archiving", "done"}
        /\ "project" \in dirs /\ "project" \notin dirs')
       => reqs[o].pc \notin {"generating", "archiving"}]_vars

====
